---- MODULE Spec2Model ----
(***************************************************************************)
(* Model of requires.py: OpenStackIntegrationRequires, the requires side   *)
(* of the OpenStack integration interface.                                 *)
(*                                                                         *)
(* Python values are written as their repr strings: "None", "True",        *)
(* "False", "''" (the empty string), "'sg-1'" (a non-empty string), ...    *)
(* so that values of different Python types can be compared.               *)
(***************************************************************************)
EXTENDS Naturals, Sequences, FiniteSets, TLC

VARIABLES
    relations,  \* self.relations: <<>> or <<received>>, received: field -> value
    flags,      \* the flags of this endpoint that are set: joined, changed, ready
    call        \* the last operation run, what it returned or raised, and
                \* whether ready was set when it started

vars == <<relations, flags, call>>

----------------------------------------------------------------------------
(* Python values *)

None == "None"
True == "True"
False == "False"

\* Python truth value of a value: None, False and the empty string are falsy.
Truthy(v) == v \notin {"None", "False", "''"}

\* a or b
Or(a, b) == IF Truthy(a) THEN a ELSE b

\* not a
Not(a) == IF Truthy(a) THEN False ELSE True

\* a and b
And(a, b) == IF Truthy(a) THEN b ELSE a

\* The outcome of evaluating a property: a value, or an exception.
Return(v) == [exc |-> "none", val |-> v]
Raise(e) == [exc |-> e, val |-> None]

----------------------------------------------------------------------------
(* The relation data *)

RequiredFields ==
    {"auth_url", "username", "password",
     "user_domain_name", "project_domain_name", "project_name"}

\* The fields is_ready reads.
ReadinessFields ==
    RequiredFields \cup {"manage_security_groups", "node_security_group"}

PlainOptionalFields == {"region", "subnet_id", "floating_network_id", "lb_method"}

Fields ==
    ReadinessFields \cup PlainOptionalFields \cup {"endpoint_tls_ca"}

\* The values the peer may publish for a field ("None": never sent).
FieldValues(k) ==
    CASE k = "password" -> {None, "''", "'v'"}
      [] k \in RequiredFields -> {None, "'v'"}
      [] k = "manage_security_groups" -> {None, True, False, "'false'"}
      [] k = "node_security_group" -> {None, "''", "'sg-1'"}
      [] k = "endpoint_tls_ca" -> {None, "''", "'Y2E='"}
      [] OTHER -> {None, "'v'"}

NoData == [k \in Fields |-> None]

\* Every FieldSet over all thirteen fields.
AllFieldSets ==
    [auth_url : FieldValues("auth_url"),
     region : FieldValues("region"),
     username : FieldValues("username"),
     password : FieldValues("password"),
     user_domain_name : FieldValues("user_domain_name"),
     project_domain_name : FieldValues("project_domain_name"),
     project_name : FieldValues("project_name"),
     endpoint_tls_ca : FieldValues("endpoint_tls_ca"),
     subnet_id : FieldValues("subnet_id"),
     floating_network_id : FieldValues("floating_network_id"),
     lb_method : FieldValues("lb_method"),
     manage_security_groups : FieldValues("manage_security_groups"),
     node_security_group : FieldValues("node_security_group")]

----------------------------------------------------------------------------
(* Properties of the endpoint *)

\* self.relations[0].joined_units.received: indexing an empty list raises.
received ==
    IF Len(relations) = 0 THEN Raise("IndexError") ELSE Return(relations[1])

\* self._received[name]
Field(name) ==
    IF received.exc # "none" THEN received ELSE Return(received.val[name])

auth_url == Field("auth_url")

region == Field("region")

username == Field("username")

password == Field("password")

user_domain_name == Field("user_domain_name")

project_domain_name == Field("project_domain_name")

project_name == Field("project_name")

endpoint_tls_ca ==
    LET r == Field("endpoint_tls_ca")
    IN  IF r.exc # "none" THEN r ELSE Return(Or(r.val, None))

subnet_id == Field("subnet_id")

floating_network_id == Field("floating_network_id")

lb_method == Field("lb_method")

\* manage_security_groups without the "or False".
manage_security_groups_raw == Field("manage_security_groups")

manage_security_groups ==
    LET r == Field("manage_security_groups")
    IN  IF r.exc # "none" THEN r ELSE Return(Or(r.val, False))

node_security_group == Field("node_security_group")

\* AllRequired with project_name left out of the list.
AllRequired_without_project_name ==
    IF /\ auth_url.val # None
       /\ username.val # None
       /\ password.val # None
       /\ user_domain_name.val # None
       /\ project_domain_name.val # None
    THEN True ELSE False

\* all(field is not None for field in [...]) over the six required properties
AllRequired ==
    IF /\ auth_url.val # None
       /\ username.val # None
       /\ password.val # None
       /\ user_domain_name.val # None
       /\ project_domain_name.val # None
       /\ project_name.val # None
    THEN True ELSE False

\* is_ready with "and" for "or" in sec_grp.
is_ready_and ==
    IF node_security_group.exc # "none" THEN node_security_group
    ELSE LET sec_grp == And(node_security_group.val, Not(manage_security_groups.val))
         IN  Return(And(sec_grp, AllRequired))

is_ready ==
    IF node_security_group.exc # "none" THEN node_security_group
    ELSE LET sec_grp == Or(node_security_group.val, Not(manage_security_groups.val))
         IN  Return(And(sec_grp, AllRequired))

\* The property a caller reads by name.
Property(name) ==
    CASE name = "is_ready" -> is_ready
      [] name = "auth_url" -> auth_url
      [] name = "region" -> region
      [] name = "username" -> username
      [] name = "password" -> password
      [] name = "user_domain_name" -> user_domain_name
      [] name = "project_domain_name" -> project_domain_name
      [] name = "project_name" -> project_name
      [] name = "endpoint_tls_ca" -> endpoint_tls_ca
      [] name = "subnet_id" -> subnet_id
      [] name = "floating_network_id" -> floating_network_id
      [] name = "lb_method" -> lb_method
      [] name = "manage_security_groups" -> manage_security_groups
      [] name = "node_security_group" -> node_security_group

PropertyNames == Fields \cup {"is_ready"}

----------------------------------------------------------------------------
(* Flags *)

set_flag(fl, f) == fl \cup {f}

clear_flag(fl, f) == fl \ {f}

toggle_flag(fl, f, should_set) ==
    IF Truthy(should_set) THEN set_flag(fl, f) ELSE clear_flag(fl, f)

Called(op, r) ==
    [op |-> op, exc |-> r.exc, ret |-> r.val, was_ready |-> "ready" \in flags]

----------------------------------------------------------------------------
(* Handlers *)

\* check_ready that sets ready when is_ready holds but never clears it.
check_ready_set_only ==
    /\ "changed" \in flags
    /\ IF is_ready.exc # "none"
       THEN /\ flags' = flags
            /\ call' = Called("check_ready", Raise(is_ready.exc))
       ELSE /\ flags' = clear_flag(IF Truthy(is_ready.val)
                                   THEN set_flag(flags, "ready") ELSE flags,
                                   "changed")
            /\ call' = Called("check_ready", Return(None))
    /\ UNCHANGED relations

\* check_ready that sets ready without consulting is_ready.
check_ready_always ==
    /\ "changed" \in flags
    /\ flags' = clear_flag(set_flag(flags, "ready"), "changed")
    /\ call' = Called("check_ready", Return(None))
    /\ UNCHANGED relations

\* @when('endpoint.{endpoint_name}.changed')
check_ready ==
    /\ "changed" \in flags
    /\ IF is_ready.exc # "none"
       THEN /\ flags' = flags
            /\ call' = Called("check_ready", Raise(is_ready.exc))
       ELSE /\ flags' = clear_flag(toggle_flag(flags, "ready", is_ready.val),
                                   "changed")
            /\ call' = Called("check_ready", Return(None))
    /\ UNCHANGED relations

\* remove_ready that clears the wrong flag.
remove_ready_wrong_flag ==
    /\ "joined" \notin flags
    /\ flags' = clear_flag(flags, "changed")
    /\ call' = Called("remove_ready", Return(None))
    /\ UNCHANGED relations

\* remove_ready that clears every flag of the endpoint.
remove_ready_all_flags ==
    /\ "joined" \notin flags
    /\ flags' = {}
    /\ call' = Called("remove_ready", Return(None))
    /\ UNCHANGED relations

\* @when_not('endpoint.{endpoint_name}.joined')
remove_ready ==
    /\ "joined" \notin flags
    /\ flags' = clear_flag(flags, "ready")
    /\ call' = Called("remove_ready", Return(None))
    /\ UNCHANGED relations

\* A caller reads one of the endpoint's properties.
Read(name) ==
    /\ call' = Called(name, Property(name))
    /\ UNCHANGED <<relations, flags>>

----------------------------------------------------------------------------
(* The dispatcher: the peer connection's lifecycle *)

\* The relation is established: the endpoint is joined, nothing received yet.
RelationJoined ==
    /\ Len(relations) = 0
    /\ relations' = <<NoData>>
    /\ flags' = set_flag(flags, "joined")
    /\ call' = Called("relation_joined", Return(None))

\* The peer publishes a new value for one field: last value wins per key.
RelationChanged(k, v) ==
    /\ Len(relations) = 1
    /\ relations[1][k] # v
    /\ relations' = <<[relations[1] EXCEPT ![k] = v]>>
    /\ flags' = set_flag(flags, "changed")
    /\ call' = Called("relation_changed", Return(None))

\* The relation is torn down.
RelationBroken ==
    /\ Len(relations) = 1
    /\ relations' = <<>>
    /\ flags' = clear_flag(flags, "joined")
    /\ call' = Called("relation_broken", Return(None))

----------------------------------------------------------------------------
(* The endpoint over its lifetime *)

NotCalled == [op |-> "init", exc |-> "none", ret |-> None, was_ready |-> FALSE]

Init ==
    /\ relations = <<>>
    /\ flags = {}
    /\ call = NotCalled

Next ==
    \/ RelationJoined
    \/ \E k \in ReadinessFields : \E v \in FieldValues(k) : RelationChanged(k, v)
    \/ RelationBroken
    \/ check_ready
    \/ remove_ready
    \/ \E name \in PropertyNames : Read(name)

Spec == Init /\ [][Next]_vars

(* The properties as pure functions of the received data *)

PureInit ==
    /\ relations \in {<<>>} \cup {<<fs>> : fs \in AllFieldSets}
    /\ flags = IF Len(relations) = 0 THEN {} ELSE {"joined"}
    /\ call = NotCalled

PureNext == \E name \in PropertyNames : Read(name)

PureSpec == PureInit /\ [][PureNext]_vars

\* The handlers are run by a dispatcher that runs every handler whose flags
\* hold until none does.
FairSpec == Spec /\ WF_vars(check_ready) /\ WF_vars(remove_ready)

----------------------------------------------------------------------------
(* Properties *)

Connected == Len(relations) = 1

Joined == "joined" \in flags

Ready == "ready" \in flags

Changed == "changed" \in flags

\* The required fields that were never sent.
Missing == {k \in RequiredFields : relations[1][k] = None}

\* The last operation was a read of property name that returned.
Returned(name) == call.op = name /\ call.exc = "none"

\* C1: with a connection whose FieldSet lacks at least one required field,
\* is_ready returns False, whatever the other fields hold.
C1_MissingRequiredNotReady ==
    (call.op = "is_ready" /\ Connected /\ Missing # {})
        => (call.exc = "none" /\ call.ret = False)

\* is_ready was read with only project_name missing, security groups managed
\* and a security group given.
C1_Witness ==
    /\ Returned("is_ready")
    /\ Connected
    /\ Missing = {"project_name"}
    /\ relations[1]["manage_security_groups"] = True
    /\ relations[1]["node_security_group"] = "'sg-1'"
    /\ call.ret = False

C3_ReadyOnlyWhileJoined == Ready => Joined

\* C3 amended: ready set without joined arises only by the step that tears the
\* connection down (no handler and no update produces it), and the run of
\* remove_ready that the cleared joined flag triggers ends it.
C3_ReadyWithoutJoinedOnlyByTeardown ==
    [][ /\ (~(Ready /\ ~Joined) /\ (Ready /\ ~Joined)')
            => call'.op = "relation_broken"
        /\ call'.op = "remove_ready" => ~(Ready /\ ~Joined)' ]_vars

\* The connection was torn down while ready was set: ready without joined.
C3_Witness ==
    /\ call.op = "relation_broken"
    /\ Ready
    /\ ~Joined

\* C4: whenever check_ready completes, ready is set exactly if is_ready holds
\* of the FieldSet as it then is, whatever ready was before.
C4_ReadyIsLevelTriggered ==
    (call.op = "check_ready" /\ call.exc = "none")
        => (Ready <=> (is_ready.exc = "none" /\ is_ready.val = True))

\* check_ready completed and took ready from set to cleared, a required field
\* having been withdrawn.
C4_Witness ==
    /\ call.op = "check_ready"
    /\ call.exc = "none"
    /\ call.was_ready
    /\ ~Ready
    /\ Connected
    /\ Missing # {}

C6_NoConnectionReadsNone ==
    (~Connected /\ call.op \in PropertyNames)
        => /\ call.exc = "none"
           /\ call.ret = IF call.op = "is_ready" THEN False ELSE None

\* C7: manage_security_groups never returns None and returns False when the
\* field is absent; is_ready then is True exactly when the six required fields
\* are present, whatever node_security_group holds.
C7_ManageSecurityGroupsDefaultsFalse ==
    /\ Returned("manage_security_groups")
        => /\ call.ret # None
           /\ relations[1]["manage_security_groups"] = None => call.ret = False
    /\ (Returned("is_ready") /\ relations[1]["manage_security_groups"] = None)
        => call.ret = IF Missing = {} THEN True ELSE False

\* manage_security_groups was read with the field absent and returned False.
C7_Witness ==
    /\ Returned("manage_security_groups")
    /\ Connected
    /\ relations[1]["manage_security_groups"] = None
    /\ relations[1]["node_security_group"] = None
    /\ call.ret = False

\* C8: once check_ready has been run, the changed flag is cleared.
C8_ChangedClearedAfterCheckReady ==
    call.op = "check_ready" => ~Changed

\* C9: a manage_security_groups value that is no boolean (the string 'false')
\* is read as if the field were absent: the accessor returns False and
\* is_ready is True exactly when the six required fields are present.
C9_MalformedTreatedAsAbsent ==
    (Connected /\ relations[1]["manage_security_groups"] = "'false'")
        => /\ call.op = "manage_security_groups"
                => (call.exc = "none" /\ call.ret = False)
           /\ call.op = "is_ready"
                => /\ call.exc = "none"
                   /\ call.ret = IF Missing = {} THEN True ELSE False

\* C10: check_ready changes only ready and changed, remove_ready only ready,
\* a read of is_ready or of a field accessor nothing; none of them changes
\* the FieldSet or joined, and ready turns from cleared to set only in a
\* check_ready step.
C10_HandlersWriteOnlyTheirFlags ==
    [][ /\ call'.op = "check_ready"
            => /\ relations' = relations
               /\ flags' \ {"ready", "changed"} = flags \ {"ready", "changed"}
        /\ call'.op = "remove_ready"
            => /\ relations' = relations
               /\ flags' \ {"ready"} = flags \ {"ready"}
        /\ call'.op \in PropertyNames
            => /\ relations' = relations
               /\ flags' = flags
        /\ (~Ready /\ Ready') => call'.op = "check_ready" ]_vars

\* check_ready turned ready from cleared to set on a joined endpoint.
C10_Witness ==
    /\ call.op = "check_ready"
    /\ call.exc = "none"
    /\ ~call.was_ready
    /\ Ready
    /\ Joined

====
